---- MODULE Spec2Model ----
(***************************************************************************)
(* Model of the code-block decoration pass of the rich-text example        *)
(* (src/examples/rich-text/index.js): getContent and decorateNode, with    *)
(* the component state (value, isEmoji) and the handlers that write it.    *)
(*                                                                         *)
(* A text is a sequence of characters.  A node is a record with its type,  *)
(* its language attribute and its ordered list of text segments, each a    *)
(* record [key, text].  A Prism token is a record                          *)
(*   [form, type, str, kids]                                               *)
(* where form = "string" is a plain JavaScript string (str), form = "flat" *)
(* is a Token object whose content is a string (str) and form = "nested"   *)
(* is a Token object whose content is an array of tokens (kids).           *)
(***************************************************************************)
EXTENDS Integers, Sequences, FiniteSets

VARIABLES
  pc,           \* "idle", "called" (decorateNode entered) or "returned"
  node,         \* the argument of the decorateNode call
  tokens,       \* const tokens (line 913), as Prism.tokenize returned them
  texts,        \* const texts (line 910): what texts.shift() left of it
  decorations,  \* const decorations (line 914)
  passes,       \* how many times the body of the while loop (lines 936-939) ran
  tokenized,    \* whether the call reached Prism.tokenize (line 913)
  result,       \* how the call ended: "undefined", "decorations" or "TypeError"
  value,        \* this.state.value (line 234): its start block
  isEmoji,      \* this.state.isEmoji (line 235)
  prev,         \* history: how the call before ended, when this is a second
                \* call on the same node
  keyed         \* the last call of onKeyDown: its event, the start block it
                \* read, what it did to the change and to the event, and what
                \* it returned

vars == <<pc, node, tokens, texts, decorations, passes, tokenized, result,
          value, isEmoji, prev, keyed>>

\* The component state, this.state.
state == <<value, isEmoji>>

(***************************************************************************)
(* Bounds of the model.                                                    *)
(***************************************************************************)
\* Longest newline-joined string of a node: characters of all its segments
\* plus one per segment boundary.
MaxDoc == 4
\* Most top-level tokens in a token stream.
MaxTokens == 2
\* Deepest nesting of token arrays inside a token's content.
MaxDepth == 2

NL == "\n"
Chars == {"a", NL}
TokenTypes == {"keyword", "tag"}
NodeTypes == {"code", "paragraph"}
\* Values of node.data.get('language'); Prism as imported (line 4) has a
\* grammar for the first and none for the second.
Languages == {"js", "python"}

(***************************************************************************)
(* Sequences.                                                              *)
(***************************************************************************)
Range(s) == {s[k] : k \in DOMAIN s}

RECURSIVE Strings(_)
\* All texts of length n over Chars.
Strings(n) ==
  IF n = 0 THEN {<<>>}
  ELSE {<<c>> \o s : c \in Chars, s \in Strings(n - 1)}

StringsUpTo(n) == UNION {Strings(k) : k \in 0..n}

\* content.split('\n').length - 1: the number of newline characters.
Newlines(s) == Cardinality({k \in DOMAIN s : s[k] = NL})

\* The last element of a nonempty sequence and the sequence without it.
Last(s) == s[Len(s)]
Front(s) == SubSeq(s, 1, Len(s) - 1)

(***************************************************************************)
(* The nodes decorateNode is called on.  A block node holds at least one   *)
(* text; a text may hold newline characters (onKeyDown inserts one into    *)
(* the text of a code block, line 298).                                    *)
(***************************************************************************)
RECURSIVE SplitAt(_, _, _)
\* The texts s[from..] falls into when cut at the positions seps.
SplitAt(s, seps, from) ==
  LET next == {k \in seps : k >= from} IN
  IF next = {} THEN <<SubSeq(s, from, Len(s))>>
  ELSE LET k == CHOOSE m \in next : \A o \in next : m <= o
       IN <<SubSeq(s, from, k - 1)>> \o SplitAt(s, seps, k + 1)

\* Every list of texts whose newline-joined string has at most MaxDoc characters.
TextLists ==
  UNION {{SplitAt(s, seps, 1) : seps \in SUBSET {k \in DOMAIN s : s[k] = NL}} :
         s \in StringsUpTo(MaxDoc)}

\* Text nodes carry unique keys; here the key is the position in the block.
WithKeys(tl) == [k \in DOMAIN tl |-> [key |-> k, text |-> tl[k]]]

\* The code block of the specification's single-segment case: one text,
\* "let x = 1;".
LetText == <<"l", "e", "t", " ", "x", " ", "=", " ", "1", ";">>
LetNode == [type |-> "code", language |-> "js", texts |-> WithKeys(<<LetText>>)]

Nodes ==
  {[type |-> t, language |-> l, texts |-> WithKeys(tl)] :
     t \in NodeTypes, l \in Languages, tl \in TextLists} \cup {LetNode}

(***************************************************************************)
(* Prism tokens and the tokenizer.                                         *)
(***************************************************************************)
StringToken(c) == [form |-> "string", type |-> "", str |-> c, kids |-> <<>>]
FlatToken(t, c) == [form |-> "flat", type |-> t, str |-> c, kids |-> <<>>]
ArrayToken(t, ks) == [form |-> "nested", type |-> t, str |-> <<>>, kids |-> ks]

RECURSIVE NestedToken(_, _)
\* A token over the characters c whose content is an array nested d deep:
\* the array holds a token over all but the last character (nested d - 1
\* deep, a string-content token at the bottom) and the last character as a
\* plain string.
NestedToken(c, d) ==
  LET inner(x) == IF d = 1 THEN FlatToken("punctuation", x) ELSE NestedToken(x, d - 1)
  IN IF Len(c) = 1 THEN ArrayToken("tag", <<inner(c)>>)
     ELSE ArrayToken("tag", <<inner(Front(c)), StringToken(<<Last(c)>>)>>)

\* The tokens Prism can make of the nonempty piece c of the string: a plain
\* string, a token of some type with string content, or a token whose
\* content is an array (nested MaxDepth deep).
TokensOf(c) ==
  {StringToken(c)} \cup {FlatToken(t, c) : t \in TokenTypes}
                  \cup {NestedToken(c, MaxDepth)}

RECURSIVE TokenStreams(_, _)
\* Every stream of at most n tokens that cuts the string s into pieces.
TokenStreams(s, n) ==
  IF s = <<>> THEN {<<>>}
  ELSE IF n = 0 THEN {}
  ELSE UNION {{<<t>> \o rest : t \in TokensOf(SubSeq(s, 1, k)),
                               rest \in TokenStreams(SubSeq(s, k + 1, Len(s)), n - 1)} :
              k \in 1..Len(s)}

\* Prism.languages[language]: the grammar, or undefined.
PrismLanguages(language) == IF language = "js" THEN "js" ELSE "undefined"

\* The strings a token stream handed to the mapper may cover: the string it
\* was asked to tokenize and, for a stream that breaks the tokenizer's
\* contract, that string with one character more or one character less.
Covered(string) ==
  {string, string \o <<"a">>} \cup (IF string = <<>> THEN {} ELSE {Front(string)})

\* The token stream of the specification's single-segment case:
\* [{keyword, "let"}, " x = ", {number, "1"}, ";"].
LetTokens ==
  <<FlatToken("keyword", SubSeq(LetText, 1, 3)), StringToken(SubSeq(LetText, 4, 8)),
    FlatToken("number", SubSeq(LetText, 9, 9)), StringToken(SubSeq(LetText, 10, 10))>>

\* Prism.tokenize(string, grammar) for a grammar that is defined.
PrismTokenize(string, grammar) ==
  UNION {TokenStreams(c, MaxTokens) : c \in Covered(string)}
    \cup (IF string = LetText THEN {LetTokens} ELSE {})

(***************************************************************************)
(* getContent (lines 207-215).                                             *)
(***************************************************************************)
RECURSIVE JoinArray(_, _)
\* array.join(sep) for an array of strings.
JoinArray(strs, sep) ==
  IF strs = <<>> THEN <<>>
  ELSE IF Len(strs) = 1 THEN strs[1]
  ELSE strs[1] \o sep \o JoinArray(Tail(strs), sep)

RECURSIVE getContentComma(_)
\* getContent with the array joined by join(), whose separator is a comma.
getContentComma(token) ==
  IF token.form = "string" THEN token.str
  ELSE IF token.form = "flat" THEN token.str
  ELSE JoinArray([k \in DOMAIN token.kids |-> getContentComma(token.kids[k])], <<",">>)

RECURSIVE getContent(_)
getContent(token) ==
  IF token.form = "string" THEN token.str
  ELSE IF token.form = "flat" THEN token.str
  ELSE JoinArray([k \in DOMAIN token.kids |-> getContent(token.kids[k])], <<>>)

(***************************************************************************)
(* decorateNode (lines 906-958).  The locals of a call are a record; the   *)
(* field raised is set when a statement throws.                            *)
(***************************************************************************)
\* The locals when the decorations array outlives the call: it starts with
\* the ranges of the call before.
LocalsKept(n) ==
  [texts |-> Tail(n.texts), decorations |-> decorations,
   startText |-> Head(n.texts), endText |-> Head(n.texts),
   startOffset |-> 0, endOffset |-> 0, start |-> 0,
   available |-> 0, remaining |-> 0, passes |-> 0, raised |-> FALSE]

\* Lines 910 and 914-919: the locals before the first token.
Locals(n) ==
  [texts |-> Tail(n.texts), decorations |-> <<>>,
   startText |-> Head(n.texts), endText |-> Head(n.texts),
   startOffset |-> 0, endOffset |-> 0, start |-> 0,
   available |-> 0, remaining |-> 0, passes |-> 0, raised |-> FALSE]

\* Line 911: texts.map(t => t.text).join('\n').
JoinTexts(ts) == JoinArray([k \in DOMAIN ts |-> ts[k].text], <<NL>>)

\* The loop condition without its texts.length > 0 conjunct.
WhileCondUnguarded(st) == st.available < st.remaining

\* Line 935: the condition of the while loop.
WhileCond(st) == st.available < st.remaining /\ Len(st.texts) > 0

\* Lines 936-939: one pass of the while loop.  texts.shift() of an empty
\* array is undefined, and reading its text throws.
WhileBody(st, length) ==
  IF st.texts = <<>>
  THEN [st EXCEPT !.raised = TRUE, !.passes = @ + 1]
  ELSE [st EXCEPT !.endText = Head(st.texts),
                  !.texts = Tail(st.texts),
                  !.remaining = length - st.available,
                  !.available = Len(Head(st.texts).text),
                  !.endOffset = length - st.available,
                  !.passes = @ + 1]

RECURSIVE WhileLoop(_, _)
\* Lines 935-940.
WhileLoop(st, length) ==
  IF st.raised \/ ~WhileCond(st) THEN st
  ELSE WhileLoop(WhileBody(st, length), length)

\* Lines 943-949: the range of a token.
RangeOf(st, token) ==
  [anchorKey |-> st.startText.key, anchorOffset |-> st.startOffset,
   focusKey |-> st.endText.key, focusOffset |-> st.endOffset,
   marks |-> <<[type |-> token.type]>>]

\* A range for every token, plain strings included.
EmitAlways(st, token) == [st EXCEPT !.decorations = Append(@, RangeOf(st, token))]

\* Lines 942-952: a token that is not a string gets a range.
Emit(st, token) ==
  IF token.form # "string"
  THEN [st EXCEPT !.decorations = Append(@, RangeOf(st, token))]
  ELSE st

\* The body of the for loop with line 933 as endOffset = remaining.
ForBodyFromZero(st, token) ==
  LET content == getContent(token)
      newlines == Newlines(content)
      length == Len(content) - newlines
      end == st.start + length
      s1 == [st EXCEPT !.startText = st.endText,
                       !.startOffset = st.endOffset,
                       !.available = Len(st.endText.text) - st.endOffset,
                       !.remaining = length,
                       !.endOffset = length]
      s2 == WhileLoop(s1, length)
  IN IF s2.raised THEN s2
     ELSE [Emit(s2, token) EXCEPT !.start = end]

\* Lines 922-954: the body of the for loop for one token.
ForBody(st, token) ==
  LET content == getContent(token)
      newlines == Newlines(content)
      length == Len(content) - newlines
      end == st.start + length
      s1 == [st EXCEPT !.startText = st.endText,
                       !.startOffset = st.endOffset,
                       !.available = Len(st.endText.text) - st.endOffset,
                       !.remaining = length,
                       !.endOffset = st.endOffset + length]
      s2 == WhileLoop(s1, length)
  IN IF s2.raised THEN s2
     ELSE [Emit(s2, token) EXCEPT !.start = end]

RECURSIVE ForOf(_, _, _)
\* Lines 921-955: the for loop from the k-th token on.
ForOf(st, toks, k) ==
  IF st.raised \/ k > Len(toks) THEN st
  ELSE ForOf(ForBody(st, toks[k]), toks, k + 1)

\* A guard that lets every node through.
AnyNode(n) == TRUE

\* Line 907: the node is a code block.
IsCode(n) == n.type = "code"

NoNode == [type |-> "", language |-> "", texts |-> <<>>]

\* No key pressed yet.
NoKey ==
  [event |-> [key |-> "", mod |-> FALSE, shift |-> FALSE],
   startBlock |-> [type |-> ""], operations |-> <<>>,
   defaultPrevented |-> FALSE, returned |-> ""]

\* No call remembered.
NoCall == [decorations |-> <<>>, result |-> ""]

\* A Slate value as far as the handlers tell values apart: the type of
\* value.startBlock.  Whether the selection is expanded is read with the
\* event (line 297).
Values == [startBlock : [type : NodeTypes]]

\* Line 234: Value.fromJSON(initialValue).  The document of value.json
\* (line 7) is taken to start with a paragraph; onChange reaches every
\* other value.
InitialValue == [startBlock |-> [type |-> "paragraph"]]

Init ==
  /\ pc = "idle"
  /\ node = NoNode
  /\ tokens = <<>>
  /\ texts = <<>>
  /\ decorations = <<>>
  /\ passes = 0
  /\ tokenized = FALSE
  /\ result = ""
  /\ value = InitialValue
  /\ isEmoji = FALSE
  /\ prev = NoCall
  /\ keyed = NoKey

\* The editor renders a node and calls decorateNode on it (line 906).
Request ==
  /\ pc = "idle"
  /\ pc' = "called"
  /\ node' \in Nodes
  /\ UNCHANGED <<tokens, texts, decorations, passes, tokenized, result>>
  /\ UNCHANGED <<state, prev, keyed>>

\* Line 907: a node that is no code block is left alone.
DecorateOther(n) ==
  /\ pc = "called"
  /\ ~IsCode(n)
  /\ pc' = "returned"
  /\ UNCHANGED node
  /\ result' = "undefined"
  /\ UNCHANGED <<tokens, texts, decorations, passes, tokenized>>
  /\ UNCHANGED <<state, prev, keyed>>

\* Lines 909-913 when Prism.languages[language] is undefined: the code calls
\* Prism.tokenize all the same, and Prism reads a property of the grammar.
DecorateNoGrammar(n) ==
  /\ pc = "called"
  /\ IsCode(n)
  /\ PrismLanguages(n.language) = "undefined"
  /\ pc' = "returned"
  /\ UNCHANGED node
  /\ tokenized' = TRUE
  /\ texts' = n.texts
  /\ result' = "TypeError"
  /\ UNCHANGED <<tokens, decorations, passes>>
  /\ UNCHANGED <<state, prev, keyed>>

\* Lines 909-957 for a code block whose language has a grammar.
DecorateCode(n) ==
  /\ pc = "called"
  /\ IsCode(n)
  /\ PrismLanguages(n.language) # "undefined"
  /\ \E toks \in PrismTokenize(JoinTexts(n.texts), PrismLanguages(n.language)) :
     \E st \in {ForOf(Locals(n), toks, 1)} :
       /\ tokens' = toks
       /\ texts' = st.texts
       /\ decorations' = st.decorations
       /\ passes' = st.passes
       /\ result' = IF st.raised THEN "TypeError" ELSE "decorations"
  /\ pc' = "returned"
  /\ UNCHANGED node
  /\ tokenized' = TRUE
  /\ UNCHANGED <<state, prev, keyed>>

decorateNode == DecorateOther(node) \/ DecorateNoGrammar(node) \/ DecorateCode(node)

\* The renderer takes the result; the next call starts from fresh locals.
Render ==
  /\ pc = "returned"
  /\ pc' = "idle"
  /\ node' = NoNode
  /\ tokens' = <<>>
  /\ texts' = <<>>
  /\ decorations' = <<>>
  /\ passes' = 0
  /\ tokenized' = FALSE
  /\ result' = ""
  /\ prev' = NoCall
  /\ UNCHANGED <<state, keyed>>

\* The calls of decorateNode alone, one node after the other.
Next == Request \/ decorateNode \/ Render

Spec == Init /\ [][Next]_vars

(***************************************************************************)
(* The editor with its handlers: between two renders the handlers write    *)
(* the component state, and a render may call decorateNode on a node it    *)
(* decorated before.                                                       *)
(***************************************************************************)
\* Lines 906-957 as a function of the node and of what Prism.tokenize
\* returns for it: the variables of the call when it has ended.
Decorated(n, toks) ==
  IF ~IsCode(n)
  THEN [tokens |-> <<>>, texts |-> <<>>, decorations |-> <<>>, passes |-> 0,
        tokenized |-> FALSE, result |-> "undefined"]
  ELSE IF PrismLanguages(n.language) = "undefined"
  THEN [tokens |-> <<>>, texts |-> n.texts, decorations |-> <<>>, passes |-> 0,
        tokenized |-> TRUE, result |-> "TypeError"]
  ELSE LET st == ForOf(Locals(n), toks, 1)
       IN [tokens |-> toks, texts |-> st.texts, decorations |-> st.decorations,
           passes |-> st.passes, tokenized |-> TRUE,
           result |-> IF st.raised THEN "TypeError" ELSE "decorations"]

\* The editor renders the same node again and calls decorateNode on it a
\* second time (line 795).  Prism.tokenize is a function of its arguments
\* and returns the token stream it returned before.  How the first call
\* ended is remembered.
Rerender ==
  /\ pc = "returned"
  /\ prev = NoCall
  /\ prev' = [decorations |-> decorations, result |-> result]
  /\ \E out \in {Decorated(node, tokens)} :
       /\ tokens' = out.tokens
       /\ texts' = out.texts
       /\ decorations' = out.decorations
       /\ passes' = out.passes
       /\ tokenized' = out.tokenized
       /\ result' = out.result
  /\ UNCHANGED <<pc, node, state, keyed>>

\* Lines 280-282: the editor hands over a changed value (the user typed,
\* clicked or moved the selection) and onChange saves it.
onChange ==
  /\ pc # "called"
  /\ \E v \in Values \ {value} : value' = v
  /\ UNCHANGED <<pc, node, tokens, texts, decorations, passes, tokenized, result,
                 isEmoji, prev, keyed>>

\* Lines 712-715: the emoji button flips isEmoji; onClickEmojiIcon (lines
\* 493-514) only builds the menu.
onMouseDownEmoji ==
  /\ pc # "called"
  /\ isEmoji' = ~isEmoji
  /\ UNCHANGED <<pc, node, tokens, texts, decorations, passes, tokenized, result,
                 value, prev, keyed>>

(***************************************************************************)
(* onKeyDown (lines 292-316) and the hotkey matchers (lines 41-44).        *)
(***************************************************************************)
\* event.key of the keys told apart ("backquote" stands for the grave
\* accent of line 44), and the keyboard events: mod is the platform's
\* modifier (Control, or Command on a Mac), no other modifier but shift is
\* held.
Keys == {"Enter", "b", "i", "u", "backquote", "a"}
Events == [key : Keys, mod : BOOLEAN, shift : BOOLEAN]

\* isKeyHotkey("mod+<key>") of is-hotkey (line 8): the event's key is the
\* hotkey's and the modifiers held are exactly the hotkey's.
isKeyHotkey(key, event) == event.key = key /\ event.mod /\ ~event.shift

\* Lines 41-44.
isBoldHotkey(event) == isKeyHotkey("b", event)
isItalicHotkey(event) == isKeyHotkey("i", event)
isUnderlinedHotkey(event) == isKeyHotkey("u", event)
isCodeHotkey(event) == isKeyHotkey("backquote", event)

\* Lines 299-311: the mark of the event, "undefined" where the code returns.
MarkOf(event) ==
  IF isBoldHotkey(event) THEN "bold"
  ELSE IF isItalicHotkey(event) THEN "italic"
  ELSE IF isUnderlinedHotkey(event) THEN "underlined"
  ELSE IF isCodeHotkey(event) THEN "code"
  ELSE "undefined"

\* Lines 293-315: what a call of onKeyDown does, as the record keyed.
KeyDown(event, v, isExpanded) ==
  LET left == [event |-> event, startBlock |-> v.startBlock, operations |-> <<>>,
               defaultPrevented |-> FALSE, returned |-> "undefined"]
      inserted == (IF isExpanded THEN <<[op |-> "delete", arg |-> ""]>> ELSE <<>>)
                    \o <<[op |-> "insertText", arg |-> NL]>>
  IN IF event.key # "Enter" THEN left
     ELSE IF v.startBlock.type # "code" THEN left
     ELSE IF MarkOf(event) = "undefined"
     THEN [left EXCEPT !.operations = inserted]
     ELSE [left EXCEPT !.operations =
                         Append(inserted, [op |-> "toggleMark", arg |-> MarkOf(event)]),
                       !.defaultPrevented = TRUE,
                       !.returned = "true"]

\* The editor calls onKeyDown with a keyboard event and the change of the
\* current value (lines 292-316, prop at line 791).
onKeyDown ==
  /\ pc # "called"
  /\ \E event \in Events, isExpanded \in BOOLEAN :
       keyed' = KeyDown(event, value, isExpanded)
  /\ UNCHANGED <<pc, node, tokens, texts, decorations, passes, tokenized, result,
                 value, isEmoji, prev>>

\* The handlers alone, no render between them.
NextKeys == onKeyDown \/ onChange \/ onMouseDownEmoji

SpecKeys == Init /\ [][NextKeys]_vars

\* Renders and the handlers that write the component state.
NextEditor == Next \/ Rerender \/ onChange \/ onMouseDownEmoji

SpecEditor == Init /\ [][NextEditor]_vars

(***************************************************************************)
(* What the specification says of a call, stated over the node, the token  *)
(* stream and the joined string, apart from the code's own bookkeeping.    *)
(***************************************************************************)
RECURSIVE FlatText(_), FlatSeq(_)
\* The flattened text of a token: its string, or its children's flattened
\* texts in order with nothing between them.
FlatText(t) == IF t.form = "nested" THEN FlatSeq(t.kids) ELSE t.str
\* The flattened text of a sequence of tokens.
FlatSeq(ts) == IF ts = <<>> THEN <<>> ELSE FlatText(Head(ts)) \o FlatSeq(Tail(ts))

\* A token's length as the mapper counts it: newlines left out.
Counted(t) == Len(FlatText(t)) - Newlines(FlatText(t))

RECURSIVE SumCounted(_)
\* The counted length of a token stream.
SumCounted(ts) == IF ts = <<>> THEN 0 ELSE Counted(Head(ts)) + SumCounted(Tail(ts))
RECURSIVE SumText(_)
\* The number of characters in a list of segments.
SumText(ts) == IF ts = <<>> THEN 0 ELSE Len(Head(ts).text) + SumText(Tail(ts))

\* decorateNode returned its ranges.
Returned == pc = "returned" /\ result = "decorations"

\* The token stream covers exactly the node's texts joined by newlines.
Matching == FlatSeq(tokens) = JoinTexts(node.texts)

Structured(j) == tokens[j].form # "string"
StructuredUpTo(j) == {m \in 1..j : Structured(m)}
\* The range that belongs to the j-th token, when that token is structured.
RangeAt(j) == decorations[Cardinality(StructuredUpTo(j))]

TextLen(k) == Len(node.texts[k].text)
RECURSIVE SegStart(_)
\* Where the k-th segment starts in the joined string (positions from 1).
SegStart(k) == IF k = 1 THEN 1 ELSE SegStart(k - 1) + TextLen(k - 1) + 1
\* Position p of the joined string lies in segment k (and is no separator).
InSeg(p, k) == SegStart(k) <= p /\ p < SegStart(k) + TextLen(k)
SegOf(p) == CHOOSE k \in DOMAIN node.texts : InSeg(p, k)
OffsetOf(p) == p - SegStart(SegOf(p))

\* The positions of the joined string the j-th token covers, and those of
\* them that count: the characters that are no newline.
TokStart(j) == Len(FlatSeq(SubSeq(tokens, 1, j - 1))) + 1
TokEnd(j) == Len(FlatSeq(SubSeq(tokens, 1, j)))
CharsOf(j) == {p \in TokStart(j)..TokEnd(j) : FlatSeq(tokens)[p] # NL}
Least(S) == CHOOSE x \in S : \A y \in S : x <= y
Greatest(S) == CHOOSE x \in S : \A y \in S : x >= y

\* C1: for a matching token stream every range covers exactly the
\* characters of its structured token: it is anchored at the (segment,
\* offset) of the token's first counted character and focused just after
\* its last one, whatever number of segments the token spans (so ranges of
\* different tokens neither overlap nor leave gaps).
C1_RangesCoverTokens ==
  (Returned /\ Matching) =>
    \A j \in DOMAIN tokens :
      (Structured(j) /\ CharsOf(j) # {}) =>
        LET r == RangeAt(j)
            first == Least(CharsOf(j))
            last == Greatest(CharsOf(j))
        IN /\ r.anchorKey = node.texts[SegOf(first)].key
           /\ r.anchorOffset = OffsetOf(first)
           /\ r.focusKey = node.texts[SegOf(last)].key
           /\ r.focusOffset = OffsetOf(last) + 1

\* The text of the segment with key k.
TextOfKey(k) == (CHOOSE t \in Range(node.texts) : t.key = k).text

\* C2: for a matching token stream the anchor offset of every range lies
\* within the text of its anchor segment and the focus offset within the
\* text of its focus segment.
C2_OffsetsWithinSegments ==
  (Returned /\ Matching) =>
    \A m \in DOMAIN decorations :
      LET r == decorations[m]
      IN /\ 0 <= r.anchorOffset /\ r.anchorOffset <= Len(TextOfKey(r.anchorKey))
         /\ 0 <= r.focusOffset /\ r.focusOffset <= Len(TextOfKey(r.focusKey))

RECURSIVE StructuredTypes(_)
\* The types of the structured tokens of a stream, in stream order.
StructuredTypes(ts) ==
  IF ts = <<>> THEN <<>>
  ELSE (IF Head(ts).form = "string" THEN <<>> ELSE <<Head(ts).type>>)
         \o StructuredTypes(Tail(ts))

\* C3: the ranges are one per structured top-level token, none for a plain
\* string, in token order: the i-th range carries the one mark whose type
\* is that of the i-th structured token.
C3_OneRangePerStructuredToken ==
  Returned =>
    /\ Len(decorations) = Len(StructuredTypes(tokens))
    /\ \A m \in DOMAIN decorations :
         decorations[m].marks = <<[type |-> StructuredTypes(tokens)[m]]>>

\* A call returned one range for a stream of a plain string followed by a
\* structured token.
C3_Witness ==
  /\ Returned
  /\ Len(tokens) = 2
  /\ tokens[1].form = "string"
  /\ tokens[2].form = "flat"
  /\ Len(decorations) = 1
  /\ decorations[1].marks = <<[type |-> "keyword"]>>

\* The j-th token starts in segment k and ends in segment k + 1, and the one
\* newline it holds is the separator that joins the two.
CrossesInto(j, k) ==
  /\ Structured(j)
  /\ Newlines(FlatText(tokens[j])) = 1
  /\ CharsOf(j) # {}
  /\ k + 1 \in DOMAIN node.texts
  /\ InSeg(Least(CharsOf(j)), k)
  /\ InSeg(Greatest(CharsOf(j)), k + 1)

\* C4: a structured token that starts in segment k and ends in segment
\* k + 1 is anchored at segment k at the offset where it starts and focused
\* at segment k + 1 at its length without the newline minus the number of
\* its characters that lie in segment k.
C4_CrossSegmentSplit ==
  (Returned /\ Matching) =>
    \A j \in DOMAIN tokens : \A k \in DOMAIN node.texts :
      CrossesInto(j, k) =>
        LET r == RangeAt(j)
            inK == Cardinality({p \in CharsOf(j) : InSeg(p, k)})
        IN /\ r.anchorKey = node.texts[k].key
           /\ r.anchorOffset = OffsetOf(Least(CharsOf(j)))
           /\ r.focusKey = node.texts[k + 1].key
           /\ r.focusOffset = (Len(FlatText(tokens[j])) - 1) - inK

\* What C5 says of every one-segment node: the range of every structured
\* token lies in the segment, starts at the sum of the lengths of the
\* tokens before it and ends its own length further (a length as the mapper
\* counts it, newlines left out).
SingleSegmentOffsets ==
  (Returned /\ Matching /\ Len(node.texts) = 1) =>
    \A j \in DOMAIN tokens :
      Structured(j) =>
        LET r == RangeAt(j)
            before == SumCounted(SubSeq(tokens, 1, j - 1))
        IN /\ r.anchorKey = node.texts[1].key
           /\ r.focusKey = node.texts[1].key
           /\ r.anchorOffset = before
           /\ r.focusOffset = before + Counted(tokens[j])

\* The call on "let x = 1;" with the specification's token stream returned.
LetReturned == Returned /\ node = LetNode /\ tokens = LetTokens

\* The ranges of that call: a keyword from 0 to 3 and a number from `from`
\* to `to`, and nothing else.
LetRanges(from, to) ==
  <<[anchorKey |-> 1, anchorOffset |-> 0, focusKey |-> 1, focusOffset |-> 3,
     marks |-> <<[type |-> "keyword"]>>],
    [anchorKey |-> 1, anchorOffset |-> from, focusKey |-> 1, focusOffset |-> to,
     marks |-> <<[type |-> "number"]>>]>>

\* C5 as stated: in a node of one segment with a matching token stream the
\* range of every structured token lies in that segment, starts at the sum
\* of the lengths of the tokens before it and ends its own length further;
\* "let x = 1;" yields keyword [0,3) and number [9,10) and nothing else.
C5_AsStated ==
  /\ SingleSegmentOffsets
  /\ LetReturned => decorations = LetRanges(9, 10)

\* C5 as amended: the same, with "let x = 1;" yielding keyword [0,3) and
\* number [8,9) and nothing else.
C5_SingleSegmentOffsets ==
  /\ SingleSegmentOffsets
  /\ LetReturned => decorations = LetRanges(8, 9)

\* The call on "let x = 1;" returned two ranges.
C5_Witness == LetReturned /\ Matching /\ Len(decorations) = 2

\* The stream with every top-level nested token replaced by a token of the
\* same type whose content is the one string of its flattened text.
Flattened(ts) ==
  [j \in DOMAIN ts |->
     IF ts[j].form = "nested" THEN FlatToken(ts[j].type, FlatText(ts[j])) ELSE ts[j]]

\* C6: a token whose content is an array of nested tokens gets one range,
\* for the outer token only, and range and cursor are those of a flat token
\* holding the in-order concatenation of the children's flattened texts:
\* the call returns what it returns for the flattened stream, and a range
\* that stays in one segment is as long as that concatenation counts.
C6_NestedAsFlat ==
  Returned =>
    LET flat == ForOf(Locals(node), Flattened(tokens), 1)
    IN /\ decorations = flat.decorations
       /\ texts = flat.texts
       /\ Len(decorations) = Cardinality(StructuredUpTo(Len(tokens)))
       /\ \A j \in DOMAIN tokens :
            (tokens[j].form = "nested" /\ RangeAt(j).anchorKey = RangeAt(j).focusKey) =>
              RangeAt(j).focusOffset - RangeAt(j).anchorOffset = Counted(tokens[j])

\* A call returned one range, two characters long, for a nested token of two
\* characters that follows a plain string.
C6_Witness ==
  /\ Returned /\ Matching
  /\ Len(tokens) = 2
  /\ tokens[1].form = "string"
  /\ tokens[2].form = "nested"
  /\ tokens[2].kids[1].form = "nested"
  /\ Len(decorations) = 1
  /\ decorations[1].anchorKey = decorations[1].focusKey
  /\ decorations[1].focusOffset - decorations[1].anchorOffset = 2

\* The call ran the whole of decorateNode: a code block with a grammar.
RanMapper == pc = "returned" /\ node.type = "code" /\ PrismLanguages(node.language) # "undefined"

\* C7: for every segment list and every token stream, decorateNode ends
\* without raising, and every pass of the while loop takes one segment off
\* the list, so the loop runs at most (number of segments - 1) times in the
\* whole call.
C7_LoopConsumesSegments ==
  RanMapper =>
    /\ result = "decorations"
    /\ passes = (Len(node.texts) - 1) - Len(texts)
    /\ passes <= Len(node.texts) - 1

\* A call on three segments with an empty one in the middle returned after
\* two passes of the loop.
C7_Witness ==
  /\ RanMapper /\ Matching
  /\ result = "decorations"
  /\ Len(node.texts) = 3
  /\ node.texts[1].text # <<>>
  /\ node.texts[2].text = <<>>
  /\ node.texts[3].text # <<>>
  /\ passes = 2

\* C8: when the token stream counts more characters than the segments
\* hold, decorateNode fails with an error: it does not return ranges.
C8_FailsOnExcess ==
  (RanMapper /\ SumCounted(tokens) > SumText(node.texts)) => result # "decorations"

\* C9: on a code node whose language has no grammar decorateNode returns an
\* empty sequence of ranges and raises nothing.
C9_NoGrammarNoRanges ==
  (pc = "returned" /\ node.type = "code" /\ PrismLanguages(node.language) = "undefined") =>
    (result = "decorations" /\ decorations = <<>>)

\* C10: on a node that is no code block decorateNode returns undefined
\* without tokenizing and without a range; only code blocks get ranges.
C10_OnlyCodeIsDecorated ==
  /\ (pc = "returned" /\ node.type # "code") =>
        (result = "undefined" /\ ~tokenized /\ decorations = <<>>)
  /\ (pc = "returned" /\ result = "decorations") => node.type = "code"

\* A call on a paragraph that holds text, in a language with a grammar,
\* returned undefined.
C10_Witness ==
  /\ pc = "returned"
  /\ node.type = "paragraph"
  /\ node.language = "js"
  /\ node.texts[1].text # <<>>
  /\ result = "undefined"

\* C11: no range spans a newline separator that is not part of its token:
\* for every structured token whose content holds no newline (and holds a
\* character at all) the range's anchorKey equals its focusKey, also when
\* the token before it ended exactly at the end of the segment before.
C11_NoSpuriousCrossing ==
  (Returned /\ Matching) =>
    \A j \in DOMAIN tokens :
      (Structured(j) /\ Newlines(FlatText(tokens[j])) = 0 /\ CharsOf(j) # {}) =>
        RangeAt(j).anchorKey = RangeAt(j).focusKey

\* A step that is a call of decorateNode from entry to return: a first
\* call, or the second call on the node.
DecorateStep == (pc = "called" /\ pc' = "returned") \/ (prev = NoCall /\ prev' # NoCall)

FormattingMark(event) ==
  IF ~event.mod \/ event.shift THEN ""
  ELSE CASE event.key = "b" -> "bold"
         [] event.key = "i" -> "italic"
         [] event.key = "u" -> "underlined"
         [] event.key = "backquote" -> "code"
         [] OTHER -> ""

\* C13: when the event of onKeyDown is a formatting hotkey (mod+b, mod+i,
\* mod+u, mod+backquote), whatever the type of the start block, the call toggles
\* the hotkey's mark on the change, prevents the default action and returns
\* true.
C13_HotkeyTogglesMark ==
  (keyed # NoKey /\ FormattingMark(keyed.event) # "") =>
    /\ keyed.operations # <<>>
    /\ Last(keyed.operations) = [op |-> "toggleMark", arg |-> FormattingMark(keyed.event)]
    /\ keyed.defaultPrevented
    /\ keyed.returned = "true"

====
